---- MODULE Spec2Model ----
(***************************************************************************)
(* A model of scripts/wms.py: get_jpeg (one WMS tile fetched, converted    *)
(* and written with its world file) and download_wms_grid (the grid of     *)
(* tiles over an area).                                                    *)
(*                                                                         *)
(* Python's float is IEEE-754 binary64.  The grid arithmetic and the       *)
(* world file are computed with it, so the model computes with it too:     *)
(* a float is a sign, a 53-bit significand and a binary exponent, and      *)
(* every operation rounds its exact result to nearest, ties to even.       *)
(* The significand does not fit TLC's 32-bit integers and is kept as a     *)
(* little-endian sequence of 15-bit limbs.  Exponents stay far inside the  *)
(* binary64 range for the inputs drawn here, so overflow, underflow and    *)
(* subnormals do not arise and are not modelled.                           *)
(***************************************************************************)
EXTENDS Integers, Sequences, FiniteSets, TLC

(* ---------------- natural numbers of any size (limbs) ------------------ *)

Base == 2^15

Precision == 53

RECURSIVE BNorm(_)
BNorm(a) ==
  IF a = <<>> THEN a
  ELSE IF a[Len(a)] = 0 THEN BNorm(SubSeq(a, 1, Len(a) - 1)) ELSE a

RECURSIVE BFromInt(_)
BFromInt(n) == IF n = 0 THEN <<>> ELSE <<n % Base>> \o BFromInt(n \div Base)

RECURSIVE BToInt(_)
BToInt(a) == IF a = <<>> THEN 0 ELSE Head(a) + Base * BToInt(Tail(a))

BHead(a) == IF a = <<>> THEN 0 ELSE Head(a)

BTail(a) == IF a = <<>> THEN a ELSE Tail(a)

RECURSIVE BAddC(_, _, _)
BAddC(a, b, c) ==
  IF a = <<>> /\ b = <<>> THEN (IF c = 0 THEN <<>> ELSE <<c>>)
  ELSE LET s == BHead(a) + BHead(b) + c
       IN <<s % Base>> \o BAddC(BTail(a), BTail(b), s \div Base)

BAdd(a, b) == BAddC(a, b, 0)

RECURSIVE BSubC(_, _, _)
BSubC(a, b, c) ==
  IF a = <<>> THEN <<>>
  ELSE LET s == Head(a) - BHead(b) - c
       IN IF s < 0 THEN <<s + Base>> \o BSubC(Tail(a), BTail(b), 1)
                   ELSE <<s>> \o BSubC(Tail(a), BTail(b), 0)

\* a - b for a >= b
BSub(a, b) == BNorm(BSubC(a, b, 0))

RECURSIVE BCmpTop(_, _, _)
BCmpTop(a, b, i) ==
  IF i = 0 THEN 0
  ELSE IF a[i] < b[i] THEN -1
  ELSE IF a[i] > b[i] THEN 1
  ELSE BCmpTop(a, b, i - 1)

\* -1, 0, 1 as a < b, a = b, a > b
BCmp(a, b) ==
  IF Len(a) < Len(b) THEN -1
  ELSE IF Len(a) > Len(b) THEN 1
  ELSE BCmpTop(a, b, Len(a))

RECURSIVE BMulC(_, _, _)
BMulC(a, n, c) ==
  IF a = <<>> THEN (IF c = 0 THEN <<>> ELSE <<c>>)
  ELSE LET s == Head(a) * n + c
       IN <<s % Base>> \o BMulC(Tail(a), n, s \div Base)

\* a * n for a limb n
BMulSmall(a, n) == IF n = 0 THEN <<>> ELSE BMulC(a, n, 0)

RECURSIVE BMul(_, _)
BMul(a, b) ==
  IF a = <<>> \/ b = <<>> THEN <<>>
  ELSE BAdd(BMulSmall(a, Head(b)),
            LET r == BMul(a, Tail(b)) IN IF r = <<>> THEN r ELSE <<0>> \o r)

RECURSIVE BZeros(_)
BZeros(k) == IF k = 0 THEN <<>> ELSE <<0>> \o BZeros(k - 1)

\* a * 2^k
BShl(a, k) ==
  IF a = <<>> THEN a
  ELSE BZeros(k \div 15) \o BMulSmall(a, 2^(k % 15))

RECURSIVE BDivC(_, _, _, _)
BDivC(a, d, i, r) ==
  IF i = 0 THEN <<>>
  ELSE LET s == r * Base + a[i]
       IN BDivC(a, d, i - 1, s % d) \o <<s \div d>>

\* floor(a / 2^k)
BShr(a, k) ==
  LET limbs == k \div 15
      rest == IF limbs >= Len(a) THEN <<>> ELSE SubSeq(a, limbs + 1, Len(a))
  IN  BNorm(BDivC(rest, 2^(k % 15), Len(rest), 0))

RECURSIVE BitLenInt(_)
BitLenInt(n) == IF n = 0 THEN 0 ELSE 1 + BitLenInt(n \div 2)

\* the number of bits of a (0 for 0)
BBitLen(a) == IF a = <<>> THEN 0 ELSE 15 * (Len(a) - 1) + BitLenInt(a[Len(a)])

BOdd(a) == a # <<>> /\ Head(a) % 2 = 1

BLimb(a, i) == IF i <= Len(a) THEN a[i] ELSE 0

\* the limb floor(r / d), for r < d * Base and d's top limb >= Base / 2:
\* the estimate from the top limbs is at most 2 too large
BDigit(r, d) ==
  LET top == BLimb(r, Len(d) + 1) * Base + BLimb(r, Len(d))
      est == IF top \div d[Len(d)] > Base - 1 THEN Base - 1 ELSE top \div d[Len(d)]
  IN  IF BCmp(BMulSmall(d, est), r) <= 0 THEN est
      ELSE IF BCmp(BMulSmall(d, est - 1), r) <= 0 THEN est - 1
      ELSE est - 2

\* long division of the limbs i..1 of n by d, r the remainder of the limbs
\* above them
RECURSIVE BDivTop(_, _, _, _)
BDivTop(n, d, i, r) ==
  IF i = 0 THEN [q |-> <<>>, r |-> r]
  ELSE LET r1 == BNorm(<<n[i]>> \o r)
           q == BDigit(r1, d)
           rest == BDivTop(n, d, i - 1, BSub(r1, BMulSmall(d, q)))
       IN  [q |-> rest.q \o <<q>>, r |-> rest.r]

\* floor(n / d) and n mod d, for d # 0
BDivMod(n, d) ==
  LET shift == 15 - BitLenInt(d[Len(d)])
      qr == BDivTop(BShl(n, shift), BShl(d, shift), Len(BShl(n, shift)), <<>>)
  IN  [q |-> BNorm(qr.q), r |-> BShr(qr.r, shift)]

(* ------------------------- binary64 floats ----------------------------- *)

\* (-1)^sign * m * 2^e, m = 0 or 2^52 <= m < 2^53
FZero(sign) == [sign |-> sign, m |-> <<>>, e |-> 0]

FIsZero(x) == x.m = <<>>

\* the float nearest (ties to even) to (-1)^sign * (n + s) * 2^e, where
\* 0 <= s < 1 and sticky says s > 0
FRound(sign, n, e, sticky) ==
  LET len == BBitLen(n)
  IN  IF n = <<>> THEN FZero(sign)
      ELSE IF len <= Precision
      THEN [sign |-> sign, m |-> BShl(n, Precision - len), e |-> e - (Precision - len)]
      ELSE LET k == len - Precision
               q == BShr(n, k)
               r == BSub(n, BShl(q, k))
               c == BCmp(r, BShl(<<1>>, k - 1))
               up == c > 0 \/ (c = 0 /\ (sticky \/ BOdd(q)))
               q1 == IF up THEN BAdd(q, <<1>>) ELSE q
           IN  IF BBitLen(q1) > Precision
               THEN [sign |-> sign, m |-> BShr(q1, 1), e |-> e + k + 1]
               ELSE [sign |-> sign, m |-> q1, e |-> e + k]

\* float(n) for an int n
IntToFloat(n) ==
  IF n < 0 THEN FRound(1, BFromInt(-n), 0, FALSE) ELSE FRound(0, BFromInt(n), 0, FALSE)

\* -x
FNeg(x) == [x EXCEPT !.sign = 1 - x.sign]

\* x + y
FAdd(x, y) ==
  IF FIsZero(x) /\ FIsZero(y) THEN FZero(IF x.sign = 1 /\ y.sign = 1 THEN 1 ELSE 0)
  ELSE IF FIsZero(x) THEN y
  ELSE IF FIsZero(y) THEN x
  ELSE LET e == IF x.e < y.e THEN x.e ELSE y.e
           a == BShl(x.m, x.e - e)
           b == BShl(y.m, y.e - e)
           c == BCmp(a, b)
       IN  IF x.sign = y.sign THEN FRound(x.sign, BAdd(a, b), e, FALSE)
           ELSE IF c = 0 THEN FZero(0)
           ELSE IF c > 0 THEN FRound(x.sign, BSub(a, b), e, FALSE)
           ELSE FRound(y.sign, BSub(b, a), e, FALSE)

\* x - y
FSub(x, y) == FAdd(x, FNeg(y))

\* x * y
FMul(x, y) ==
  LET sign == (x.sign + y.sign) % 2
  IN  IF FIsZero(x) \/ FIsZero(y) THEN FZero(sign)
      ELSE FRound(sign, BMul(x.m, y.m), x.e + y.e, FALSE)

\* x / y for y # 0
FDiv(x, y) ==
  LET sign == (x.sign + y.sign) % 2
  IN  IF FIsZero(x) THEN FZero(sign)
      ELSE LET d == BDivMod(BShl(x.m, Precision + 3), y.m)
           IN  FRound(sign, d.q, x.e - y.e - (Precision + 3), d.r # <<>>)

\* -1, 0, 1 as x < y, x == y, x > y
FCmp(x, y) ==
  LET d == FSub(x, y)
  IN  IF FIsZero(d) THEN 0 ELSE IF d.sign = 1 THEN -1 ELSE 1

\* int(x): truncation towards zero
FTrunc(x) ==
  IF FIsZero(x) THEN 0
  ELSE LET a == IF x.e >= 0 THEN BShl(x.m, x.e) ELSE BShr(x.m, -x.e)
       IN  IF x.sign = 1 THEN -BToInt(a) ELSE BToInt(a)

(* ------------------------------ strings -------------------------------- *)

\* a str is the sequence of its characters
DotJpg == <<".", "j", "p", "g">>

Digits == <<"0", "1", "2", "3", "4", "5", "6", "7", "8", "9">>

\* str(n) for an int n >= 0
RECURSIVE IntToStr(_)
IntToStr(n) ==
  IF n < 10 THEN <<Digits[n + 1]>>
  ELSE IntToStr(n \div 10) \o <<Digits[(n % 10) + 1]>>

\* s.endswith(suffix)
EndsWith(s, suffix) ==
  Len(s) >= Len(suffix) /\ SubSeq(s, Len(s) - Len(suffix) + 1, Len(s)) = suffix

StartsAt(s, i, old) ==
  i + Len(old) - 1 <= Len(s) /\ SubSeq(s, i, i + Len(old) - 1) = old

\* s.replace(old, new): every occurrence of old, left to right
RECURSIVE ReplaceFrom(_, _, _, _)
ReplaceFrom(s, i, old, new) ==
  IF i > Len(s) THEN <<>>
  ELSE IF StartsAt(s, i, old) THEN new \o ReplaceFrom(s, i + Len(old), old, new)
  ELSE <<s[i]>> \o ReplaceFrom(s, i + 1, old, new)

Replace(s, old, new) == ReplaceFrom(s, 1, old, new)

\* os.path.join(a, b)
PathJoin(a, b) ==
  IF b # <<>> /\ Head(b) = "/" THEN b
  ELSE IF a = <<>> \/ a[Len(a)] = "/" THEN a \o b
  ELSE a \o <<"/">> \o b

(* ---------------------------- number text ------------------------------ *)

\* The text of a number inside a bbox string.  An int literal is its int.
\* A float is formatted by repr, the shortest decimal text that float()
\* reads back as the same binary64 value, so the text of a float is kept
\* as the value it denotes.
IntText(n) == [lit |-> "int", n |-> n, f |-> FZero(0)]

ReprText(x) == [lit |-> "repr", n |-> 0, f |-> x]

\* float(text)
ParseFloat(t) == IF t.lit = "int" THEN IntToFloat(t.n) ELSE t.f

\* bounds_to_bbox: the four bounds, comma separated
bounds_to_bbox(bounds) ==
  <<ReprText(bounds[1]), ReprText(bounds[2]), ReprText(bounds[3]), ReprText(bounds[4])>>

(* ----------------------------- world file ------------------------------ *)

\* a slip: the y resolution is not negated and the origin is (xmin, ymin)
WorldFileUnflipped(metadata) ==
  LET xmin == metadata.extent.xmin
      ymin == metadata.extent.ymin
      xmax == metadata.extent.xmax
      ymax == metadata.extent.ymax
      x_res == FDiv(FSub(xmax, xmin), IntToFloat(metadata.width))
      y_res == FDiv(FSub(ymax, ymin), IntToFloat(metadata.height))
  IN  <<x_res, FZero(0), FZero(0), y_res, xmin, ymin>>

\* image_metadata_to_world_file: the six lines of the .jgw text, each line
\* the number it states
image_metadata_to_world_file(metadata) ==
  LET xmin == metadata.extent.xmin
      ymin == metadata.extent.ymin
      xmax == metadata.extent.xmax
      ymax == metadata.extent.ymax
      x_res == FDiv(FSub(xmax, xmin), IntToFloat(metadata.width))
      y_res == FDiv(FSub(ymax, ymin), IntToFloat(metadata.height))
  IN  <<x_res, FZero(0), FZero(0), FNeg(y_res), xmin, ymax>>

(* ------------------------------ get_jpeg -------------------------------- *)

HttpOk == 200

png_filename(filename) == Replace(filename, DotJpg, <<"_", ".", "p", "n", "g">>)

jgw_filename(filename) == Replace(filename, DotJpg, <<".", "j", "g", "w">>)

md_filename(filename) == Replace(filename, DotJpg, <<".", "j", "s", "o", "n">>)

jpeg_filename(filename) == filename

\* a slip: only the last character is compared
HasJpgExtensionLastChar(filename) == EndsWith(filename, <<"g">>)

\* line 47: the filename is accepted
HasJpgExtension(filename) == EndsWith(filename, DotJpg)

\* os.path.isfile
IsFile(files, path) == path \in DOMAIN files

\* a slip: the metadata file is required even without save_metadata
ShouldSkipNeedsMetadata(a, files) ==
  ~a.overwrite /\ IsFile(files, jpeg_filename(a.filename))
               /\ IsFile(files, md_filename(a.filename))

\* lines 55-60: the early return None
ShouldSkip(a, files) ==
  IF a.save_metadata
  THEN ~a.overwrite /\ IsFile(files, jpeg_filename(a.filename))
                    /\ IsFile(files, md_filename(a.filename))
  ELSE ~a.overwrite /\ IsFile(files, jpeg_filename(a.filename))

\* lines 76-87
ImageMetadata(a) ==
  [width |-> a.width,
   height |-> a.height,
   extent |-> [xmin |-> ParseFloat(a.bbox[1]),
               ymin |-> ParseFloat(a.bbox[2]),
               xmax |-> ParseFloat(a.bbox[3]),
               ymax |-> ParseFloat(a.bbox[4]),
               latestWkid |-> a.srs[2]]]

\* lines 62-74: what of the request the model keeps
RequestParams(a) ==
  [layers |-> a.layers, format |-> "image/png", srs |-> a.srs,
   bbox |-> a.bbox, width |-> a.width, height |-> a.height]

\* a slip: every status from 200 on counts as success
IsSuccessFrom200(status) == status >= HttpOk

\* line 91
IsSuccess(status) == status = HttpOk

\* open(path, 'w') ... write(content)
WriteFile(files, path, content) ==
  [p \in DOMAIN files \cup {path} |-> IF p = path THEN content ELSE files[p]]

\* a slip: the file is left in place
RemoveFileForgotten(files, path) == files

\* os.remove(path)
RemoveFile(files, path) == [p \in DOMAIN files \ {path} |-> files[p]]

\* a slip: the except clause is missing and the exception leaves get_jpeg
AfterGdalErrorPropagates == "raised"

\* where control goes from the except clause of lines 106-107
AfterGdalError == "remove"

NoArgs ==
  [wms_url |-> "", layers |-> "", bbox |-> <<>>, width |-> 0, height |-> 0,
   filename |-> <<>>, srs |-> <<>>, save_metadata |-> FALSE, overwrite |-> FALSE]

NoMetadata == [width |-> 0, height |-> 0, extent |-> <<>>]

NoResult == [kind |-> "none"]

NoGrid ==
  [full_bounds |-> <<>>, width |-> 0, height |-> 0, tile_px |-> 0,
   output_dir |-> <<>>, prefix |-> <<>>, srs |-> <<>>,
   save_metadata |-> FALSE, overwrite |-> FALSE]

(* -------------------------- download_wms_grid --------------------------- *)

\* lines 128-133, for one axis
TileSize(lo, hi, pixels, tile_px) ==
  FMul(IntToFloat(tile_px), FDiv(IntToFloat(hi - lo), IntToFloat(pixels)))

\* lines 136-137, for one axis
TileCount(lo, hi, tile_size) == FTrunc(FDiv(IntToFloat(hi - lo), tile_size))

\* lines 143-146: (tile_xmin, tile_ymin, tile_xmax, tile_ymax)
CellBounds(full_bounds, ts_x, ts_y, r, c) ==
  LET tile_xmin == FAdd(IntToFloat(full_bounds[1]), FMul(IntToFloat(c), ts_x))
      tile_xmax == FAdd(tile_xmin, ts_x)
      tile_ymax == FSub(IntToFloat(full_bounds[4]), FMul(IntToFloat(r), ts_y))
      tile_ymin == FSub(tile_ymax, ts_y)
  IN  <<tile_xmin, tile_ymin, tile_xmax, tile_ymax>>

\* a slip: the column is left out of the name
TileFilenameRowOnly(output_dir, prefix, r, c) ==
  PathJoin(output_dir, prefix \o <<"_">> \o IntToStr(r) \o DotJpg)

\* line 149
TileFilename(output_dir, prefix, r, c) ==
  PathJoin(output_dir,
           prefix \o <<"_">> \o IntToStr(r) \o <<"_">> \o IntToStr(c) \o DotJpg)

\* lines 148-161: the arguments of the get_jpeg call for cell (r, c)
CellArgs(g, ts_x, ts_y, r, c) ==
  [wms_url |-> "url", layers |-> "ortho",
   bbox |-> bounds_to_bbox(CellBounds(g.full_bounds, ts_x, ts_y, r, c)),
   width |-> g.tile_px, height |-> g.tile_px,
   filename |-> TileFilename(g.output_dir, g.prefix, r, c),
   srs |-> g.srs, save_metadata |-> g.save_metadata, overwrite |-> g.overwrite]

\* a slip: the column is advanced twice
NextCellSkipsOne(r, c, ncols) == IF c + 2 < ncols THEN <<r, c + 2>> ELSE <<r + 1, 0>>

\* lines 141-142: the cell after (r, c), rows outer, columns inner
NextCell(r, c, ncols) == IF c + 1 < ncols THEN <<r, c + 1>> ELSE <<r + 1, 0>>

\* lines 141-142: the loops have a cell (r, c) to run
HasCell(r, c, nrows, ncols) == r < nrows /\ c < ncols

(* ------------------------------- bounds --------------------------------- *)

\* get_jpeg called alone, and the grid jobs of Spec
MaxOrigin == 1

MaxExtent == 2

MaxPixels == 2

MaxTilePx == 2

MaxGridPixels == 3

MaxCells == 4

\* the grid plans of PlanSpec
PlanMaxOrigin == 2

PlanMaxExtent == 2

PlanMaxTilePx == 11

PlanMaxTiles == 3

PlanMaxRemainder == 1

(* ------------------------------- state ---------------------------------- *)

VARIABLES
  mode,            \* "direct": get_jpeg is called alone; "grid": download_wms_grid;
                   \* "plan": the grid arithmetic of download_wms_grid alone
  args,            \* get_jpeg's arguments
  pc,              \* where get_jpeg is
  status_code,     \* r.status_code (0: no response yet)
  image_metadata,  \* get_jpeg's image_metadata
  result,          \* what get_jpeg returned or raised
  fs,              \* the files: path -> content
  fs_before,       \* fs when get_jpeg was entered
  requests,        \* the requests sent by the current get_jpeg call
  in_flight,       \* requests sent and not yet answered
  effects,         \* the file effects of the current get_jpeg call, in order
  gdal_error,      \* the conversion of the current call raised
  grid,            \* download_wms_grid's arguments
  gpc,             \* where download_wms_grid is
  tile_size_x, tile_size_y, rows, cols,
  row, col,        \* the loop variables
  calls,           \* the get_jpeg calls download_wms_grid made, in order
  outcomes         \* how each of them ended, in order

fetch_vars ==
  <<args, pc, status_code, image_metadata, result, fs, fs_before, requests,
    in_flight, effects, gdal_error>>

plan_vars == <<tile_size_x, tile_size_y, rows, cols>>

grid_vars == <<grid, gpc, tile_size_x, tile_size_y, rows, cols, row, col, calls, outcomes>>

vars == <<mode, fetch_vars, grid_vars>>

StatusCodes == {HttpOk, 404}

OldContent == [kind |-> "old"]

Srs == <<"EPSG", "3857">>

Filenames == {<<"t", ".", "j", "p", "g">>,
              <<"a", ".", "j", "p", "g", ".", "j", "p", "g">>,
              <<"t", ".", "p", "n", "g">>}

\* the files a call with this filename may read or write
FilesOf(filename) ==
  {png_filename(filename), jgw_filename(filename), md_filename(filename),
   jpeg_filename(filename)}

\* a filesystem in which exactly the paths of present exist
OldFiles(present) == [p \in present |-> OldContent]

\* (xmin, ymin, xmax, ymax), the width and the height of the box unequal
Bounds == {<<o, 2 * o, o + d, 2 * o + d + 1>> : o \in 0..MaxOrigin, d \in 1..MaxExtent}

BBoxes == {<<IntText(b[1]), IntText(b[2]), IntText(b[3]), IntText(b[4])>> : b \in Bounds}

DirectArgs ==
  {[wms_url |-> "url", layers |-> "ortho", bbox |-> b, width |-> w, height |-> h,
    filename |-> f, srs |-> Srs, save_metadata |-> m, overwrite |-> o] :
     b \in BBoxes, w \in 1..MaxPixels, h \in 1..MaxPixels, f \in Filenames,
     m \in BOOLEAN, o \in BOOLEAN}

GridArgs ==
  {[full_bounds |-> b, width |-> w, height |-> h,
    tile_px |-> t, output_dir |-> <<"o">>, prefix |-> <<"t">>, srs |-> Srs,
    save_metadata |-> m, overwrite |-> ov] :
     b \in {fb \in Bounds : fb[1] = 0},
     w \in 1..MaxGridPixels, h \in 1..MaxGridPixels, t \in 1..MaxTilePx,
     m \in BOOLEAN, ov \in BOOLEAN}

FetchIdle ==
  /\ args = NoArgs
  /\ pc = "idle"
  /\ status_code = 0
  /\ image_metadata = NoMetadata
  /\ result = NoResult
  /\ requests = 0
  /\ in_flight = 0
  /\ effects = <<>>
  /\ gdal_error = FALSE

GridIdle ==
  /\ tile_size_x = FZero(0)
  /\ tile_size_y = FZero(0)
  /\ rows = 0
  /\ cols = 0
  /\ row = 0
  /\ col = 0
  /\ calls = <<>>
  /\ outcomes = <<>>

InitDirect ==
  /\ mode = "direct"
  /\ args \in DirectArgs
  /\ pc = "entry"
  /\ status_code = 0
  /\ image_metadata = NoMetadata
  /\ result = NoResult
  /\ fs \in {OldFiles(present) : present \in SUBSET FilesOf(args.filename)}
  /\ fs_before = fs
  /\ requests = 0
  /\ in_flight = 0
  /\ effects = <<>>
  /\ gdal_error = FALSE
  /\ grid = NoGrid
  /\ gpc = "none"
  /\ GridIdle

InitGrid ==
  /\ mode = "grid"
  /\ grid \in {g \in GridArgs :
                 (g.width \div g.tile_px) * (g.height \div g.tile_px) <= MaxCells}
  /\ gpc = "start"
  /\ GridIdle
  /\ FetchIdle
  /\ LET first == TileFilename(grid.output_dir, grid.prefix, 0, 0)
     IN  fs \in {OldFiles({}), OldFiles({jpeg_filename(first), md_filename(first)})}
  /\ fs_before = fs

Init == InitDirect \/ InitGrid

(* --------------------------- get_jpeg's steps --------------------------- *)

Raise(exc) ==
  /\ pc' = "raised"
  /\ result' = [kind |-> "raised", exc |-> exc]

Return(value) ==
  /\ pc' = "returned"
  /\ result' = value

\* lines 47-53
CheckExtension ==
  /\ pc = "entry"
  /\ IF HasJpgExtension(args.filename)
     THEN pc' = "skipcheck" /\ result' = result
     ELSE Raise("BadFileExtensionException")
  /\ UNCHANGED <<mode, args, status_code, image_metadata, fs, fs_before, requests,
                 in_flight, effects, gdal_error, grid_vars>>

\* lines 55-60
SkipCheck ==
  /\ pc = "skipcheck"
  /\ IF ShouldSkip(args, fs)
     THEN Return([kind |-> "skipped"])
     ELSE pc' = "request" /\ result' = result
  /\ UNCHANGED <<mode, args, status_code, image_metadata, fs, fs_before, requests,
                 in_flight, effects, gdal_error, grid_vars>>

\* lines 62-89: the metadata is built and the request is sent
SendRequest ==
  /\ pc = "request"
  /\ image_metadata' = ImageMetadata(args)
  /\ requests' = requests + 1
  /\ in_flight' = in_flight + 1
  /\ pc' = "await"
  /\ UNCHANGED <<mode, args, status_code, result, fs, fs_before, effects,
                 gdal_error, grid_vars>>

\* line 89: requests.get returns a response
ReceiveResponse ==
  /\ pc = "await"
  /\ \E status \in StatusCodes : status_code' = status
  /\ in_flight' = in_flight - 1
  /\ pc' = "status"
  /\ UNCHANGED <<mode, args, image_metadata, result, fs, fs_before, requests,
                 effects, gdal_error, grid_vars>>

\* line 89: requests.get raises (no connection, too many redirects, ...)
RequestRaises ==
  /\ pc = "await"
  /\ in_flight' = in_flight - 1
  /\ Raise("RequestException")
  /\ UNCHANGED <<mode, args, status_code, image_metadata, fs, fs_before, requests,
                 effects, gdal_error, grid_vars>>

\* lines 91-93
WritePng ==
  /\ pc = "status"
  /\ IsSuccess(status_code)
  /\ fs' = WriteFile(fs, png_filename(args.filename), [kind |-> "png"])
  /\ effects' = Append(effects, <<"write", png_filename(args.filename)>>)
  /\ pc' = "jgw"
  /\ UNCHANGED <<mode, args, status_code, image_metadata, result, fs_before,
                 requests, in_flight, gdal_error, grid_vars>>

\* lines 111-113
FailedResponse ==
  /\ pc = "status"
  /\ ~IsSuccess(status_code)
  /\ Return([kind |-> "empty"])
  /\ UNCHANGED <<mode, args, status_code, image_metadata, fs, fs_before, requests,
                 in_flight, effects, gdal_error, grid_vars>>

\* lines 95-96
WriteWorldFile ==
  /\ pc = "jgw"
  /\ fs' = WriteFile(fs, jgw_filename(args.filename),
                     [kind |-> "jgw",
                      lines |-> image_metadata_to_world_file(image_metadata)])
  /\ effects' = Append(effects, <<"write", jgw_filename(args.filename)>>)
  /\ pc' = "md"
  /\ UNCHANGED <<mode, args, status_code, image_metadata, result, fs_before,
                 requests, in_flight, gdal_error, grid_vars>>

\* lines 98-100
WriteMetadata ==
  /\ pc = "md"
  /\ IF args.save_metadata
     THEN /\ fs' = WriteFile(fs, md_filename(args.filename),
                             [kind |-> "json", metadata |-> image_metadata])
          /\ effects' = Append(effects, <<"write", md_filename(args.filename)>>)
     ELSE UNCHANGED <<fs, effects>>
  /\ pc' = "convert"
  /\ UNCHANGED <<mode, args, status_code, image_metadata, result, fs_before,
                 requests, in_flight, gdal_error, grid_vars>>

\* lines 102-105: gdal.Translate writes the JPEG
Convert ==
  /\ pc = "convert"
  /\ fs' = WriteFile(fs, jpeg_filename(args.filename),
                     [kind |-> "jpeg", srs |-> args.srs])
  /\ effects' = Append(effects, <<"write", jpeg_filename(args.filename)>>)
  /\ pc' = "remove"
  /\ UNCHANGED <<mode, args, status_code, image_metadata, result, fs_before,
                 requests, in_flight, gdal_error, grid_vars>>

\* lines 102-107: gdal raises before the JPEG is written; the exception is
\* caught and logged
ConvertRaises ==
  /\ pc = "convert"
  /\ gdal_error' = TRUE
  /\ IF AfterGdalError = "remove"
     THEN pc' = "remove" /\ result' = result
     ELSE Raise("Exception")
  /\ UNCHANGED <<mode, args, status_code, image_metadata, fs, fs_before, requests,
                 in_flight, effects, grid_vars>>

\* lines 109-110
RemoveAndReturn ==
  /\ pc = "remove"
  /\ fs' = RemoveFile(fs, png_filename(args.filename))
  /\ effects' = Append(effects, <<"remove", png_filename(args.filename)>>)
  /\ Return([kind |-> "ok", file |-> jpeg_filename(args.filename),
             metadata |-> image_metadata])
  /\ UNCHANGED <<mode, args, status_code, image_metadata, fs_before, requests,
                 in_flight, gdal_error, grid_vars>>

GetJpeg ==
  \/ CheckExtension
  \/ SkipCheck
  \/ SendRequest
  \/ ReceiveResponse
  \/ RequestRaises
  \/ WritePng
  \/ FailedResponse
  \/ WriteWorldFile
  \/ WriteMetadata
  \/ Convert
  \/ ConvertRaises
  \/ RemoveAndReturn

(* ---------------------- download_wms_grid's steps ----------------------- *)

\* lines 124-139
PlanGrid ==
  /\ gpc = "start"
  /\ LET b == grid.full_bounds
         tsx == TileSize(b[1], b[3], grid.width, grid.tile_px)
         tsy == TileSize(b[2], b[4], grid.height, grid.tile_px)
     IN  /\ tile_size_x' = tsx
         /\ tile_size_y' = tsy
         /\ cols' = TileCount(b[1], b[3], tsx)
         /\ rows' = TileCount(b[2], b[4], tsy)
  /\ row' = 0
  /\ col' = 0
  /\ gpc' = "loop"
  /\ UNCHANGED <<mode, fetch_vars, grid, calls, outcomes>>

\* lines 143-161: the cell's bbox and filename, and get_jpeg is entered
CallGetJpeg ==
  /\ mode = "grid"
  /\ gpc = "loop"
  /\ HasCell(row, col, rows, cols)
  /\ LET a == CellArgs(grid, tile_size_x, tile_size_y, row, col)
     IN  /\ args' = a
         /\ calls' = Append(calls, [row |-> row, col |-> col, args |-> a])
  /\ pc' = "entry"
  /\ gpc' = "in_call"
  /\ status_code' = 0
  /\ image_metadata' = NoMetadata
  /\ result' = NoResult
  /\ fs_before' = fs
  /\ requests' = 0
  /\ effects' = <<>>
  /\ gdal_error' = FALSE
  /\ UNCHANGED <<mode, fs, in_flight, grid, plan_vars, row, col, outcomes>>

\* line 151 returns: the next cell
CellReturned ==
  /\ gpc = "in_call"
  /\ pc = "returned"
  /\ outcomes' = Append(outcomes, [kind |-> result.kind, gdal_error |-> gdal_error])
  /\ row' = NextCell(row, col, cols)[1]
  /\ col' = NextCell(row, col, cols)[2]
  /\ pc' = "idle"
  /\ gpc' = "loop"
  /\ UNCHANGED <<mode, args, status_code, image_metadata, result, fs, fs_before,
                 requests, in_flight, effects, gdal_error, grid, plan_vars, calls>>

\* line 151 raises: nothing in lines 141-161 catches it
CellRaised ==
  /\ gpc = "in_call"
  /\ pc = "raised"
  /\ outcomes' = Append(outcomes, [kind |-> result.kind, gdal_error |-> gdal_error])
  /\ pc' = "idle"
  /\ gpc' = "aborted"
  /\ UNCHANGED <<mode, args, status_code, image_metadata, result, fs, fs_before,
                 requests, in_flight, effects, gdal_error, grid, plan_vars, row,
                 col, calls>>

\* lines 141-142: the loops are over
GridDone ==
  /\ gpc = "loop"
  /\ ~HasCell(row, col, rows, cols)
  /\ gpc' = "done"
  /\ UNCHANGED <<mode, fetch_vars, grid, plan_vars, row, col, calls, outcomes>>

Next ==
  \/ GetJpeg
  \/ PlanGrid
  \/ CallGetJpeg
  \/ CellReturned
  \/ CellRaised
  \/ GridDone

Spec == Init /\ [][Next]_vars

(* ----------------- the grid arithmetic on its own ----------------------- *)

\* a tile size and a remainder strip narrower than a tile
PlanTiles == {tr \in (1..PlanMaxTilePx) \X (0..PlanMaxRemainder) : tr[2] < tr[1]}

\* width and height: whole tiles and the remainder strip
PlanArgs ==
  {[full_bounds |-> <<o, 2 * o, o + dx, 2 * o + dy>>,
    width |-> kx * tr[1] + tr[2], height |-> ky * tr[1] + tr[2],
    tile_px |-> tr[1], output_dir |-> <<"o">>, prefix |-> <<"t">>, srs |-> Srs,
    save_metadata |-> FALSE, overwrite |-> TRUE] :
     o \in 0..PlanMaxOrigin, dx \in 1..PlanMaxExtent, dy \in 1..PlanMaxExtent,
     tr \in PlanTiles, kx \in 1..PlanMaxTiles, ky \in 1..PlanMaxTiles}

\* lines 174-189: the job of __main__
MainJob ==
  [full_bounds |-> <<763000, 5968700, 764000, 5969700>>,
   width |-> 256 * 4, height |-> 256 * 4, tile_px |-> 256,
   output_dir |-> <<"o">>, prefix |-> <<"t">>, srs |-> <<"EPSG", "900913">>,
   save_metadata |-> TRUE, overwrite |-> TRUE]

InitPlan ==
  /\ mode = "plan"
  /\ grid \in PlanArgs \cup {MainJob}
  /\ gpc = "start"
  /\ GridIdle
  /\ FetchIdle
  /\ fs = OldFiles({})
  /\ fs_before = fs

\* lines 141-149: the bbox and filename of cell (row, col), and on to the
\* next cell
ComputeCell ==
  /\ mode = "plan"
  /\ gpc = "loop"
  /\ HasCell(row, col, rows, cols)
  /\ calls' = Append(calls, [row |-> row, col |-> col,
                             args |-> CellArgs(grid, tile_size_x, tile_size_y,
                                               row, col)])
  /\ row' = NextCell(row, col, cols)[1]
  /\ col' = NextCell(row, col, cols)[2]
  /\ UNCHANGED <<mode, fetch_vars, grid, gpc, plan_vars, outcomes>>

PlanNext == PlanGrid \/ ComputeCell \/ GridDone

PlanSpec == InitPlan /\ [][PlanNext]_vars

(* ------------------------------ properties ------------------------------ *)

IsPrefix(a, b) == Len(a) <= Len(b) /\ SubSeq(b, 1, Len(a)) = a

\* get_jpeg is running or has ended
InCall == pc # "idle"

TheJpeg == jpeg_filename(args.filename)

TheJgw == jgw_filename(args.filename)

TheMd == md_filename(args.filename)

ThePng == png_filename(args.filename)

\* the mapping of line 110
Mapping == [kind |-> "ok", file |-> TheJpeg, metadata |-> image_metadata]

\* C1's precondition: overwrite is False, the filename ends in .jpg, and the
\* JPEG (and the metadata file, when save_metadata) existed at the call
SkipPrecondition ==
  /\ InCall
  /\ ~args.overwrite
  /\ EndsWith(args.filename, DotJpg)
  /\ TheJpeg \in DOMAIN fs_before
  /\ args.save_metadata => TheMd \in DOMAIN fs_before

\* C1: under the skip precondition get_jpeg sends no request and creates,
\* changes or deletes no file, at any point of the call, and it returns None.
C1_SkipIsNoOp ==
  SkipPrecondition =>
    /\ pc \in {"entry", "skipcheck", "returned"}
    /\ requests = 0
    /\ in_flight = 0
    /\ fs = fs_before
    /\ effects = <<>>
    /\ pc = "returned" => result = [kind |-> "skipped"]

C1_Witness ==
  /\ SkipPrecondition
  /\ pc = "returned"
  /\ result.kind = "skipped"
  /\ args.save_metadata
  /\ TheJgw \notin DOMAIN fs

\* C2: once the response status is not 200, the call has sent exactly one
\* request, writes no file, and returns {}.
C2_FailedResponseWritesNothing ==
  (InCall /\ status_code # 0 /\ status_code # 200) =>
    /\ pc \in {"status", "returned"}
    /\ requests = 1
    /\ in_flight = 0
    /\ fs = fs_before
    /\ effects = <<>>
    /\ pc = "returned" => result = [kind |-> "empty"]

C2_Witness ==
  /\ pc = "returned"
  /\ status_code = 404
  /\ result.kind = "empty"
  /\ requests = 1
  /\ fs # OldFiles({})

\* C3: with a filename that does not end in .jpg the call raises
\* BadFileExtensionException, and at no point of it is a request sent or a
\* file written, whatever overwrite, save_metadata and the files are.
C3_BadExtensionRaisesFirst ==
  (InCall /\ ~EndsWith(args.filename, DotJpg)) =>
    /\ pc \in {"entry", "raised"}
    /\ requests = 0
    /\ in_flight = 0
    /\ fs = fs_before
    /\ effects = <<>>
    /\ pc = "raised" => result = [kind |-> "raised", exc |-> "BadFileExtensionException"]

C3_Witness ==
  /\ pc = "raised"
  /\ result = [kind |-> "raised", exc |-> "BadFileExtensionException"]
  /\ ~args.overwrite
  /\ args.filename \in DOMAIN fs

\* the six lines C6 states for a bbox, a width and a height
WorldFileOf(bbox, width, height) ==
  LET xmin == ParseFloat(bbox[1])
      ymin == ParseFloat(bbox[2])
      xmax == ParseFloat(bbox[3])
      ymax == ParseFloat(bbox[4])
  IN  <<FDiv(FSub(xmax, xmin), IntToFloat(width)),
        FZero(0),
        FZero(0),
        FNeg(FDiv(FSub(ymax, ymin), IntToFloat(height))),
        xmin,
        ymax>>

ValidBBox(bbox) ==
  /\ FCmp(ParseFloat(bbox[1]), ParseFloat(bbox[3])) < 0
  /\ FCmp(ParseFloat(bbox[2]), ParseFloat(bbox[4])) < 0

\* C6: right after get_jpeg wrote the world file, and when it returns its
\* mapping, the world file holds six lines: (xmax-xmin)/width, 0.0, 0.0,
\* -(ymax-ymin)/height, xmin, ymax, of the bbox, width and height of the
\* call's request (a valid bbox, positive width and height).
C6_WorldFileLines ==
  ((pc = "md" \/ (pc = "returned" /\ result.kind = "ok"))
     /\ ValidBBox(args.bbox) /\ args.width > 0 /\ args.height > 0) =>
    /\ TheJgw \in DOMAIN fs
    /\ fs[TheJgw].kind = "jgw"
    /\ Len(fs[TheJgw].lines) = 6
    /\ fs[TheJgw].lines = WorldFileOf(args.bbox, args.width, args.height)

C6_Witness ==
  /\ pc = "returned"
  /\ result.kind = "ok"
  /\ args.width = 2
  /\ TheJgw \in DOMAIN fs
  /\ fs[TheJgw].kind = "jgw"
  /\ fs[TheJgw].lines[1] = FDiv(IntToFloat(1), IntToFloat(2))
  /\ fs[TheJgw].lines[6] = IntToFloat(4)

\* the file effects of a call answered with 200, in order
ExpectedEffects(a, failed) ==
  <<<<"write", png_filename(a.filename)>>, <<"write", jgw_filename(a.filename)>>>>
  \o (IF a.save_metadata THEN <<<<"write", md_filename(a.filename)>>>> ELSE <<>>)
  \o (IF failed THEN <<>> ELSE <<<<"write", jpeg_filename(a.filename)>>>>)
  \o <<<<"remove", png_filename(a.filename)>>>>

\* C9: get_jpeg's file effects come in the order PNG, world file, metadata
\* (only with save_metadata), JPEG, removal of the PNG; when a call whose
\* conversion succeeded returns, all of them have happened, the JPEG and the
\* world file exist, the metadata file was written iff save_metadata, the
\* PNG does not exist, and the result maps the JPEG's name to the metadata.
C9_EffectsInOrder ==
  /\ InCall => IsPrefix(effects, ExpectedEffects(args, gdal_error))
  /\ (pc = "returned" /\ result.kind = "ok" /\ ~gdal_error) =>
       /\ effects = ExpectedEffects(args, FALSE)
       /\ Len(effects) = (IF args.save_metadata THEN 5 ELSE 4)
       /\ TheJpeg \in DOMAIN fs /\ fs[TheJpeg].kind = "jpeg"
       /\ TheJgw \in DOMAIN fs /\ fs[TheJgw].kind = "jgw"
       /\ args.save_metadata =>
            TheMd \in DOMAIN fs /\ fs[TheMd] = [kind |-> "json", metadata |-> image_metadata]
       /\ ~args.save_metadata =>
            (TheMd \in DOMAIN fs <=> TheMd \in DOMAIN fs_before)
       /\ ThePng \notin DOMAIN fs
       /\ result = Mapping

C9_Witness ==
  /\ pc = "returned"
  /\ result.kind = "ok"
  /\ ~gdal_error
  /\ args.save_metadata
  /\ Len(effects) = 5
  /\ ThePng \in DOMAIN fs_before
  /\ ThePng \notin DOMAIN fs

\* C10: when the conversion raises, the exception does not leave get_jpeg:
\* the call goes on to remove the PNG and returns the same mapping as a
\* successful call; the world file (and the metadata file, with
\* save_metadata) are on disk, the JPEG is as it was before the call (absent
\* or stale), and the PNG is gone.
C10_ConversionFailureContained ==
  (InCall /\ gdal_error) =>
    /\ pc \in {"remove", "returned"}
    /\ pc = "returned" =>
         /\ result = Mapping
         /\ TheJgw \in DOMAIN fs /\ fs[TheJgw].kind = "jgw"
         /\ args.save_metadata => TheMd \in DOMAIN fs /\ fs[TheMd].kind = "json"
         /\ TheJpeg \in DOMAIN fs <=> TheJpeg \in DOMAIN fs_before
         /\ TheJpeg \in DOMAIN fs => fs[TheJpeg] = fs_before[TheJpeg]
         /\ ThePng \notin DOMAIN fs

C10_Witness ==
  /\ pc = "returned"
  /\ gdal_error
  /\ result.kind = "ok"
  /\ TheJpeg \notin DOMAIN fs
  /\ TheJgw \in DOMAIN fs
  /\ args.save_metadata

Total == rows * cols

\* C4 as specified: no failure inside a cell aborts the grid job.
C4_NoCellAbortsTheJob == gpc # "aborted"

\* C4 as amended: a cell that ends with an empty result (a response other
\* than 200) or with a caught conversion failure does not abort the job: the
\* loop goes on to the next cell, and when download_wms_grid returns, every
\* one of the rows * cols cells has been fetched.  The job is aborted only
\* by an exception that get_jpeg raises, and then by the last call made.
C4_ContainedFailuresContinue ==
  /\ Len(outcomes) <= Len(calls)
  /\ Len(calls) <= Total
  /\ gpc = "aborted" =>
       /\ outcomes # <<>>
       /\ Len(outcomes) = Len(calls)
       /\ outcomes[Len(outcomes)].kind = "raised"
  /\ \A i \in 1..Len(outcomes) :
       outcomes[i].kind # "raised" =>
         /\ gpc # "aborted" \/ i < Len(outcomes)
         /\ i < Total => (Len(calls) > i \/ gpc = "loop")
  /\ (gpc = "loop" /\ Len(calls) < Total) => HasCell(row, col, rows, cols)
  /\ gpc = "done" =>
       /\ Len(calls) = Total
       /\ Len(outcomes) = Total
       /\ \A i \in 1..Total : outcomes[i].kind \in {"ok", "empty", "skipped"}

C4_Witness ==
  /\ gpc = "done"
  /\ Total = 4
  /\ outcomes[1].kind = "empty"
  /\ outcomes[2].gdal_error
  /\ outcomes[3].kind = "ok"
  /\ outcomes[4].kind = "empty"

\* the calls made so far are the first cells in row-major order, each with
\* width = height = tile_px and a filename of its own, one at a time
SequentialRowMajor ==
  /\ \A i \in 1..Len(calls) :
       /\ cols > 0
       /\ calls[i].row = (i - 1) \div cols
       /\ calls[i].col = (i - 1) % cols
       /\ calls[i].row < rows
       /\ calls[i].args.width = grid.tile_px
       /\ calls[i].args.height = grid.tile_px
       /\ EndsWith(calls[i].args.filename,
                   grid.prefix \o <<"_">> \o IntToStr(calls[i].row) \o <<"_">>
                     \o IntToStr(calls[i].col) \o DotJpg)
       /\ \A j \in 1..Len(calls) :
            i # j => calls[i].args.filename # calls[j].args.filename
  /\ Len(calls) - Len(outcomes) = (IF gpc = "in_call" THEN 1 ELSE 0)
  /\ in_flight \in {0, 1}
  /\ in_flight = 1 => (pc = "await" /\ (mode = "grid" => gpc = "in_call"))
  /\ gpc = "in_call" => args = calls[Len(calls)].args

\* C8 as specified: row-major, one at a time, and once the job has ended
\* get_jpeg has been invoked exactly once for every cell.
C8_EveryCellOnceInOrder ==
  /\ SequentialRowMajor
  /\ gpc \in {"done", "aborted"} => Len(calls) = Total

\* C8 as amended: the cells are dispatched one at a time in row-major order,
\* each at most once, with width = height = tile_px and a filename of its
\* own; and when download_wms_grid returns, get_jpeg has been invoked
\* exactly once for every cell.
C8_SequentialInOrder ==
  /\ SequentialRowMajor
  /\ gpc = "done" => Len(calls) = Total

C8_Witness ==
  /\ gpc = "done"
  /\ rows = 2
  /\ cols = 2
  /\ Len(calls) = 4
  /\ calls[2].col = 1
  /\ calls[3].row = 1

(* ---------------- C5, C7: the grid arithmetic, in PlanSpec -------------- *)

Planned == gpc \in {"loop", "in_call", "done", "aborted"}

\* C5 as specified: cols = floor(width / tile_px) and rows =
\* floor(height / tile_px), whatever the bounds.
C5_GridDimensions ==
  Planned =>
    /\ cols = grid.width \div grid.tile_px
    /\ rows = grid.height \div grid.tile_px

CellBox(i) ==
  [xmin |-> ParseFloat(calls[i].args.bbox[1]),
   ymin |-> ParseFloat(calls[i].args.bbox[2]),
   xmax |-> ParseFloat(calls[i].args.bbox[3]),
   ymax |-> ParseFloat(calls[i].args.bbox[4])]

InsideFullBounds(b) ==
  /\ FCmp(b.xmin, b.xmax) < 0
  /\ FCmp(b.ymin, b.ymax) < 0
  /\ FCmp(IntToFloat(grid.full_bounds[1]), b.xmin) <= 0
  /\ FCmp(IntToFloat(grid.full_bounds[2]), b.ymin) <= 0
  /\ FCmp(b.xmax, IntToFloat(grid.full_bounds[3])) <= 0
  /\ FCmp(b.ymax, IntToFloat(grid.full_bounds[4])) <= 0

InteriorsOverlap(a, b) ==
  /\ FCmp(a.xmin, b.xmax) < 0
  /\ FCmp(b.xmin, a.xmax) < 0
  /\ FCmp(a.ymin, b.ymax) < 0
  /\ FCmp(b.ymin, a.ymax) < 0

\* C7 as specified: every requested cell is a valid bounding box inside
\* full_bounds, and no two cells overlap in their interiors (stated for the
\* cell requested last against the cells before it).
C7_CellsPartition ==
  calls # <<>> =>
    /\ InsideFullBounds(CellBox(Len(calls)))
    /\ \A i \in 1..(Len(calls) - 1) :
         ~InteriorsOverlap(CellBox(i), CellBox(Len(calls)))

====
